---- MODULE Spec2Model ----
(***************************************************************************)
(* Model of app.py, a Streamlit study tutor.  Every user interaction is    *)
(* one run of the script from top to bottom: the PDF is opened (lines      *)
(* 57-65), the sidebar is rendered (68-74), and, when a document and an    *)
(* API key are present, the main part handles the clicked button (77-185). *)
(* Two specifications are given:                                           *)
(*   SelSpec  - get_random_chapter_page applied to bounded documents;      *)
(*   Spec     - the session: script runs triggered by the user.            *)
(***************************************************************************)
EXTENDS Integers, Sequences, FiniteSets

VARIABLES
    \* --- SelSpec: one call of get_random_chapter_page
    selDoc,         \* the document handed to get_random_chapter_page
    selRet,         \* what the call returned (see NoRet)
    \* --- Spec: the session
    pdf,            \* the textbook behind DEFAULT_PDF_NAME / the upload
    doc,            \* `doc` of the most recent run: "none", "local", "upload"
    uploaded,       \* value of the file_uploader widget
    user_key,       \* value of the "API Key" text_input
    ans,            \* value of the "Your Answer" text_area
    session_state,  \* st.session_state: a dict, key -> value
    event,          \* what triggered the most recent run
    call,           \* the model requests issued by the most recent run
    result,         \* how the most recent run ended
    openHandles,    \* documents opened by fitz.open and not closed
    phaseBefore,    \* history: the session's phase before the most recent run
    genCall,        \* history: the call whose response current_question holds
    gradeCall       \* history: the call whose response feedback holds

vars == <<selDoc, selRet, pdf, doc, uploaded, user_key, ans, session_state,
          event, call, result, openHandles, phaseBefore, genCall,
          gradeCall>>

selVars == <<selDoc, selRet>>
sessVars == <<pdf, doc, uploaded, user_key, ans, session_state, event, call,
              result, openHandles, phaseBefore, genCall, gradeCall>>

-----------------------------------------------------------------------------
(* Bounds *)

MaxPages == 2       \* page counts of the documents of SelSpec
MaxToc == 2         \* outline lengths of the documents of SelSpec
SMaxPages == 2      \* page counts of the documents of Spec
SMaxToc == 1        \* outline lengths of the documents of Spec
MaxHandles == 2     \* cap on the count of unclosed document handles

Levels == {1, 2, 3}
Titles == {"", "Ch1"}
NoTarget == 0 - 1   \* get_toc's page number of an entry without destination

-----------------------------------------------------------------------------
(* Documents: len(doc) and doc.get_toc(), entries <<level, title, page>>. *)

SeqsUpTo(S, n) == UNION {[1..k -> S] : k \in 0..n}

Entries(levels, titles, targets) == levels \X titles \X targets

DocsOf(maxPages, maxToc, levels, titles, targets) ==
    [page_count : 1..maxPages,
     toc : SeqsUpTo(Entries(levels, titles, targets), maxToc)]

ExampleDoc ==
    [page_count |-> 30,
     toc |-> << <<1, "Ch1", 1>>, <<1, "Ch2", 10>>, <<1, "Ch3", 25>> >>]

SelDocs ==
    DocsOf(MaxPages, MaxToc, Levels, Titles, {NoTarget} \cup (1..(MaxPages + 1)))
        \cup {ExampleDoc}

-----------------------------------------------------------------------------
(* get_random_chapter_page, lines 22-41 *)

randint(a, b) == a..b

IsChapter(item) == item[1] <= 2

Chapters(toc) == SelectSeq(toc, IsChapter)

ChapterStart(chapters, idx) == chapters[idx][3] - 1

\* Mutant: the next chapter's first page counted into this chapter.
ChapterEndRawOffByOne(chapters, idx, d) ==
    IF idx < Len(chapters) THEN chapters[idx + 1][3] - 1
                           ELSE d.page_count - 1

ChapterEndRaw(chapters, idx, d) ==
    IF idx < Len(chapters) THEN chapters[idx + 1][3] - 2
                           ELSE d.page_count - 1

\* Mutant: line 40 left out.
ChapterEndUnclamped(chapters, idx, d) == ChapterEndRaw(chapters, idx, d)

ChapterEnd(chapters, idx, d) ==
    LET start == ChapterStart(chapters, idx)
        end == ChapterEndRaw(chapters, idx, d)
    IN  IF end < start THEN start ELSE end

NoIdx == 0

\* The set of values the call can return: page, title, and (for the claims)
\* the 1-based position idx of the chosen chapter, NoIdx on the fallbacks.
get_random_chapter_page(d) ==
    IF d.toc = << >>
    THEN {[page |-> p, title |-> "Unknown Chapter (No ToC)", idx |-> NoIdx] :
            p \in randint(0, d.page_count - 1)}
    ELSE LET chapters == Chapters(d.toc) IN
         IF chapters = << >>
         THEN {[page |-> p, title |-> "Random Page", idx |-> NoIdx] :
                 p \in randint(0, d.page_count - 1)}
         ELSE UNION {
                {[page |-> p, title |-> chapters[idx][2], idx |-> idx] :
                   p \in randint(ChapterStart(chapters, idx),
                                 ChapterEnd(chapters, idx, d))} :
                idx \in 1..Len(chapters)}

-----------------------------------------------------------------------------
(* SelSpec *)

NoRet == [page |-> 0, title |-> "<none>", idx |-> 0 - 1]

SessionIdle ==
    /\ pdf = [page_count |-> 1, toc |-> << >>]
    /\ doc = "none"
    /\ uploaded = FALSE
    /\ user_key = ""
    /\ ans = ""
    /\ session_state = << >>
    /\ event = "init"
    /\ call = << >>
    /\ result = [status |-> "none", text |-> ""]
    /\ openHandles = 0
    /\ phaseBefore = "Idle"
    /\ genCall = << >>
    /\ gradeCall = << >>

SelInit ==
    /\ selDoc \in SelDocs
    /\ selRet = NoRet
    /\ SessionIdle

SelectPage ==
    /\ selRet' \in get_random_chapter_page(selDoc)
    /\ UNCHANGED selDoc
    /\ UNCHANGED sessVars

SelNext == SelectPage

SelSpec == SelInit /\ [][SelNext]_vars

-----------------------------------------------------------------------------
(* The session: values *)

None == "<None>"                \* Python's None, stored in a text field
Raise == "<raise>"              \* the model call raised instead of returning
RenderFail == 0 - 1000          \* get_page_image raised instead of returning

q_types == {"Multiple Choice", "Fill-in-the-Blank", "Open-Ended"}

ApiKeys == {"", "key"}          \* the text_input's value; "" is the default
Answers == {"", "answer"}       \* the text_area's value; "" is the default
Responses == {"", "text"}       \* res.text of a call that returned

SessionDocs ==
    DocsOf(SMaxPages, SMaxToc, {1, 3}, {"Ch1"}, {1, SMaxPages + 1})

\* st.session_state is a dict; Empty is the dict after clear().
Empty == [k \in {} |-> 0]
Set(d, k, v) == [x \in DOMAIN d \cup {k} |-> IF x = k THEN v ELSE d[x]]
Has(d, k) == k \in DOMAIN d
Truthy(d, k) == Has(d, k) /\ d[k] # None /\ d[k] # ""

NoCall == << >>
Warned == [status |-> "warning", text |-> ""]
Rendered == [status |-> "rendered", text |-> ""]

-----------------------------------------------------------------------------
(* One run of the script, piece by piece *)

\* Lines 57-65: the document this run opens.  exists is os.path.exists(...),
\* upl the uploader's value.
LoadPdf(exists, upl) ==
    IF exists THEN "local" ELSE IF upl THEN "upload" ELSE "none"

\* Lines 61-65: the uploader is rendered only when the local file is missing;
\* a widget that a run does not render loses its value.
UploaderAfter(exists, upl) == IF exists THEN FALSE ELSE upl

\* Lines 60, 65: fitz.open once per run that finds a PDF; no line closes it.
Opened(d) == IF d = "none" THEN 0 ELSE 1

\* Mutant: the main part runs on the API key alone.
MainShownNoDoc(d, key) == key # ""

\* Line 77
MainShown(d, key) == d # "none" /\ key # ""

\* Line 138
QuestionShown(st) == Truthy(st, "current_question")

\* Line 177
FeedbackShown(st) == Truthy(st, "feedback")

\* The states of the session controller.
Phase(st) ==
    IF FeedbackShown(st) THEN "FeedbackShown"
    ELSE IF QuestionShown(st) THEN "QuestionShown"
    ELSE "Idle"

\* Line 150: the text_area is rendered, and so keeps its value, only in a
\* run that reaches it.
AnswerAfter(d, key, st, a) ==
    IF MainShown(d, key) /\ QuestionShown(st) THEN a ELSE ""

\* Lines 16-20.  load_page raises for an index at or past the page count; for
\* a negative index PyMuPDF counts from the end where the specification of
\* the rasterizer lets it fail, so both outcomes are kept.  An image is
\* identified by the index of the page it shows.
get_page_image(d, page_num) ==
    IF page_num \in 0..(d.page_count - 1) THEN {page_num}
    ELSE IF page_num >= d.page_count THEN {RenderFail}
    ELSE {RenderFail, page_num % d.page_count}

\* Mutant: the previous feedback is kept over a new question.
GenerateClearKeepsFeedback(st) == Set(st, "current_question", None)

\* Lines 81-82
GenerateClear(st) ==
    Set(Set(st, "feedback", None), "current_question", None)

\* Lines 98-134: the request of the question-generation call.
GenerateRequest(st) ==
    [kind |-> "generate", chapter |-> st["chapter"], q_type |-> st["q_type"],
     question |-> "", ans |-> "", img |-> st["img"], page |-> st["page"]]

\* Mutant: the grading call is sent without the stored question type.
GradeRequestNoType(st, a) ==
    [kind |-> "grade", chapter |-> "", q_type |-> "",
     question |-> st["current_question"], ans |-> a, img |-> st["img"],
     page |-> st["page"]]

\* Lines 154-173: the request of the grading call.  The page is not sent; it
\* is recorded to tell which draw the image came from.
GradeRequest(st, a) ==
    [kind |-> "grade", chapter |-> "", q_type |-> st["q_type"],
     question |-> st["current_question"], ans |-> a, img |-> st["img"],
     page |-> st["page"]]

\* Mutant: reset forgets only the question and the feedback.
ResetKeepsPage(st) ==
    [k \in DOMAIN st \ {"current_question", "feedback"} |-> st[k]]

\* Line 73
ResetState(st) == Empty

-----------------------------------------------------------------------------
(* Spec: the session.  Every action is one run of the script (Reset: two,  *)
(* the second by st.rerun()).  A button can be clicked only if the previous *)
(* run rendered it.                                                         *)

Init ==
    /\ selDoc = ExampleDoc
    /\ selRet = NoRet
    /\ pdf \in SessionDocs
    /\ \E exists \in BOOLEAN :
          /\ doc = LoadPdf(exists, FALSE)
          /\ openHandles = Opened(doc)
    /\ uploaded = FALSE
    /\ user_key = ""
    /\ ans = ""
    /\ session_state = Empty
    /\ event = "init"
    /\ call = NoCall
    /\ result = Warned
    /\ phaseBefore = "Idle"
    /\ genCall = NoCall
    /\ gradeCall = NoCall

\* History of a stored response: the call it answers, until the field that
\* holds it is overwritten or removed.
Answered(req, res) == [req |-> req, response |-> res]

Provenance(prov, key) ==
    IF /\ Has(session_state, key) = Has(session_state', key)
       /\ Has(session_state, key) => session_state[key] = session_state'[key]
    THEN prov
    ELSE NoCall

\* What a run without a handled click leaves: lines 137-190 only display.
Display(d, key) == IF MainShown(d, key) THEN Rendered ELSE Warned

\* A run that handles no click: the state is displayed, nothing is stored.
PlainRun(ev, exists, upl, key, a) ==
    /\ openHandles + Opened(LoadPdf(exists, upl)) <= MaxHandles
    /\ doc' = LoadPdf(exists, upl)
    /\ uploaded' = UploaderAfter(exists, upl)
    /\ user_key' = key
    /\ ans' = AnswerAfter(doc', key, session_state, a)
    /\ event' = ev
    /\ phaseBefore' = Phase(session_state)
    /\ call' = NoCall
    /\ result' = Display(doc', key)
    /\ openHandles' = openHandles + Opened(doc')
    /\ UNCHANGED <<pdf, session_state, genCall, gradeCall>>

\* Line 70: the user edits the API key.
EnterKey ==
    /\ \E k \in ApiKeys \ {user_key}, exists \in BOOLEAN :
          PlainRun("key", exists, uploaded, k, ans)
    /\ UNCHANGED selVars

\* Line 63: the user uploads a PDF, or removes the uploaded one.
Upload ==
    /\ doc # "local"
    /\ \E exists \in BOOLEAN :
          PlainRun("upload", exists, ~uploaded, user_key, ans)
    /\ UNCHANGED selVars

\* Line 150: the user edits the answer.
TypeAnswer ==
    /\ MainShown(doc, user_key) /\ QuestionShown(session_state)
    /\ \E a \in Answers \ {ans}, exists \in BOOLEAN :
          PlainRun("answer", exists, uploaded, user_key, a)
    /\ UNCHANGED selVars

\* Lines 72-74: clear, then st.rerun(): a second run, in which the widgets
\* either keep their values or are back at their defaults (clear() drops the
\* widgets' stored values too; what the rerun then sees is the framework's
\* choice).
Reset ==
    /\ \E exists1 \in BOOLEAN, exists2 \in BOOLEAN, keep \in BOOLEAN :
          LET upl1 == UploaderAfter(exists1, uploaded)
              upl2 == IF keep THEN upl1 ELSE FALSE
              key2 == IF keep THEN user_key ELSE ""
              d1 == LoadPdf(exists1, uploaded)
              d2 == LoadPdf(exists2, upl2)
              st == ResetState(session_state)
          IN  /\ openHandles + Opened(d1) + Opened(d2) <= MaxHandles
              /\ doc' = d2
              /\ uploaded' = UploaderAfter(exists2, upl2)
              /\ user_key' = key2
              /\ session_state' = st
              /\ ans' = AnswerAfter(d2, key2, st, ans)
              /\ event' = "reset"
              /\ phaseBefore' = Phase(session_state)
              /\ call' = NoCall
              /\ result' = Display(d2, key2)
              /\ openHandles' = openHandles + Opened(d1) + Opened(d2)
    /\ genCall' = Provenance(genCall, "current_question")
    /\ gradeCall' = Provenance(gradeCall, "feedback")
    /\ UNCHANGED pdf
    /\ UNCHANGED selVars

\* Lines 80-135, after the guard of line 77 let the run in.
GenerateHandler ==
    \E ret \in get_random_chapter_page(pdf) :
      LET st2 == Set(Set(GenerateClear(session_state), "page", ret.page),
                     "chapter", ret.title)
      IN  \E img \in get_page_image(pdf, ret.page) :
            IF img = RenderFail
            THEN /\ session_state' = st2
                 /\ call' = NoCall
                 /\ result' = [status |-> "render_error", text |-> ""]
                 /\ genCall' = Provenance(genCall, "current_question")
            ELSE \E selected_type \in q_types :
                   LET st4 == Set(Set(st2, "img", img), "q_type", selected_type)
                       req == GenerateRequest(st4)
                   IN  /\ call' = <<req>>
                       /\ \E res \in Responses \cup {Raise} :
                            IF res = Raise
                            THEN /\ session_state' = st4
                                 /\ result' = [status |-> "error", text |-> ""]
                                 /\ genCall' =
                                        Provenance(genCall, "current_question")
                            ELSE /\ session_state' =
                                        Set(st4, "current_question", res)
                                 /\ result' = [status |-> "ok", text |-> res]
                                 /\ genCall' = <<Answered(req, res)>>

\* The user clicks "Generate Random Question".
Generate ==
    /\ MainShown(doc, user_key)
    /\ \E exists \in BOOLEAN :
          /\ openHandles + Opened(LoadPdf(exists, uploaded)) <= MaxHandles
          /\ doc' = LoadPdf(exists, uploaded)
          /\ openHandles' = openHandles + Opened(doc')
          /\ uploaded' = UploaderAfter(exists, uploaded)
    /\ IF MainShown(doc', user_key)
       THEN GenerateHandler
       ELSE /\ call' = NoCall
            /\ result' = Warned
            /\ UNCHANGED <<session_state, genCall>>
    /\ gradeCall' = Provenance(gradeCall, "feedback")
    /\ ans' = AnswerAfter(doc', user_key, session_state', ans)
    /\ event' = "generate"
    /\ phaseBefore' = Phase(session_state)
    /\ UNCHANGED <<pdf, user_key>>
    /\ UNCHANGED selVars

\* Lines 152-174, after the guards of lines 77 and 138 let the run in.
CheckHandler ==
    LET req == GradeRequest(session_state, ans)
    IN  /\ call' = <<req>>
        /\ \E res \in Responses \cup {Raise} :
             IF res = Raise
             THEN /\ result' = [status |-> "error", text |-> ""]
                  /\ UNCHANGED <<session_state, gradeCall>>
             ELSE /\ session_state' = Set(session_state, "feedback", res)
                  /\ result' = [status |-> "ok", text |-> res]
                  /\ gradeCall' = <<Answered(req, res)>>

\* The user clicks "Check Answer".
CheckAnswer ==
    /\ MainShown(doc, user_key) /\ QuestionShown(session_state)
    /\ \E exists \in BOOLEAN :
          /\ openHandles + Opened(LoadPdf(exists, uploaded)) <= MaxHandles
          /\ doc' = LoadPdf(exists, uploaded)
          /\ openHandles' = openHandles + Opened(doc')
          /\ uploaded' = UploaderAfter(exists, uploaded)
    /\ IF MainShown(doc', user_key) /\ QuestionShown(session_state)
       THEN CheckHandler
       ELSE /\ call' = NoCall
            /\ result' = Warned
            /\ UNCHANGED <<session_state, gradeCall>>
    /\ ans' = AnswerAfter(doc', user_key, session_state', ans)
    /\ event' = "check"
    /\ phaseBefore' = Phase(session_state)
    /\ UNCHANGED <<pdf, user_key, genCall>>
    /\ UNCHANGED selVars

\* The runtime reclaims the handles of earlier runs once nothing refers to
\* them; the handle of the most recent run stays open.
Finalize ==
    /\ openHandles > Opened(doc)
    /\ openHandles' = Opened(doc)
    /\ UNCHANGED <<pdf, doc, uploaded, user_key, ans, session_state, event,
                   call, result, phaseBefore, genCall, gradeCall>>
    /\ UNCHANGED selVars

Next ==
    \/ EnterKey
    \/ Upload
    \/ TypeAnswer
    \/ Reset
    \/ Generate
    \/ CheckAnswer
    \/ Finalize

Spec == Init /\ [][Next]_vars

-----------------------------------------------------------------------------
(* Claims about get_random_chapter_page, checked under SelSpec.  The       *)
(* ranges the claims speak of are written out here from the claims' own    *)
(* formulas, over the qualifying entries of selDoc's outline.              *)

Called == selRet.idx >= 0
PickedChapter == selRet.idx >= 1

Qual == SelectSeq(selDoc.toc, LAMBDA e : e[1] <= 2)
NQual == Len(Qual)
Target(i) == Qual[i][3]

Max2(a, b) == IF a >= b THEN a ELSE b

ClaimStart(i) == Target(i) - 1
ClaimEnd(i) ==
    Max2(ClaimStart(i),
         IF i < NQual THEN Target(i + 1) - 2 ELSE selDoc.page_count - 1)

\* C2: the returned page index is in [0, page_count), and with a non-empty
\* outline the returned title is non-empty, whatever the outline's entries.
C2_InRangeAndTitled ==
    Called =>
        /\ selRet.page \in 0..(selDoc.page_count - 1)
        /\ (selDoc.toc # << >> => selRet.title # "")

\* The ranges as the code computes them.
CodeRange(i) ==
    ChapterStart(Chapters(selDoc.toc), i)..ChapterEnd(Chapters(selDoc.toc), i, selDoc)

NChapters == Len(Chapters(selDoc.toc))

RangesClamped ==
    \A i \in 1..NChapters :
        ChapterEnd(Chapters(selDoc.toc), i, selDoc)
            >= ChapterStart(Chapters(selDoc.toc), i)

RangesDisjoint ==
    \A i, j \in 1..NChapters : i # j => CodeRange(i) \cap CodeRange(j) = {}

RangesAdjacent ==
    \A i \in 1..(NChapters - 1) :
        ChapterStart(Chapters(selDoc.toc), i + 1)
            = ChapterEnd(Chapters(selDoc.toc), i, selDoc) + 1

RangesCover ==
    \A p \in 0..(selDoc.page_count - 1) : \E i \in 1..NChapters : p \in CodeRange(i)

TargetsInDocument == \A i \in 1..NQual : Target(i) \in 1..selDoc.page_count

\* C4 as claimed: whenever the outline has qualifying entries, the chapter
\* ranges are pairwise non-overlapping, adjacent, cover every page index of
\* [0, page_count), and have end >= start.  Stated here for the outlines
\* whose targets are all pages of the document, where no returned page is
\* out of range.
C4_RangesPartition ==
    (PickedChapter /\ TargetsInDocument) =>
        RangesDisjoint /\ RangesAdjacent /\ RangesCover /\ RangesClamped

TargetsFromOneIncreasing ==
    /\ NQual >= 1
    /\ Target(1) = 1
    /\ \A i \in 1..(NQual - 1) : Target(i) < Target(i + 1)

\* C4 as amended: end >= start holds for every chapter of every outline; the
\* ranges are pairwise non-overlapping, adjacent and cover [0, page_count)
\* when the qualifying targets start at page 1 and strictly increase.
C4_RangesAmended ==
    PickedChapter =>
        /\ RangesClamped
        /\ (TargetsFromOneIncreasing =>
                RangesDisjoint /\ RangesAdjacent /\ RangesCover)

C4_Witness ==
    /\ PickedChapter
    /\ NQual = 2
    /\ TargetsFromOneIncreasing
    /\ selDoc.page_count = 2
    /\ Target(2) = 2
    /\ selRet.idx = 2

PagesOf(d, i) == {r.page : r \in {x \in get_random_chapter_page(d) : x.idx = i}}

\* C5: when entry i is picked the returned page lies in [start_i, end_i] and
\* the returned title is entry i's; every page of the range can be returned;
\* for the 30-page example the ranges are [0,8], [9,23], [24,29].
C5_PageInPickedChapter ==
    /\ PickedChapter =>
          /\ selRet.idx \in 1..NQual
          /\ selRet.page \in ClaimStart(selRet.idx)..ClaimEnd(selRet.idx)
          /\ selRet.title = Qual[selRet.idx][2]
    /\ \A i \in 1..NQual : PagesOf(selDoc, i) = ClaimStart(i)..ClaimEnd(i)
    /\ selDoc = ExampleDoc =>
          /\ PagesOf(selDoc, 1) = 0..8
          /\ PagesOf(selDoc, 2) = 9..23
          /\ PagesOf(selDoc, 3) = 24..29

C5_Witness ==
    /\ selDoc = ExampleDoc
    /\ selRet = [page |-> 23, title |-> "Ch2", idx |-> 2]

-----------------------------------------------------------------------------
(* Claims about the session, checked under Spec *)

GradeCalled == call # NoCall /\ call[1].kind = "grade"
GenerateCalled == call # NoCall /\ call[1].kind = "generate"
InputMissing == doc = "none" \/ user_key = ""

\* C1: "Check Answer" with an empty answer while a question is shown issues
\* no grading call and leaves feedback and the rest of the session unchanged.
C1_EmptyAnswerBlocked ==
    [][(CheckAnswer /\ ans = "")
          => (call' = NoCall /\ session_state' = session_state)]_vars

\* C3: after the reset action no session field is left (page, chapter,
\* image, question, archetype, feedback), the answer is empty again, and the
\* session is Idle, whatever the phase before.
C3_ResetClearsAll ==
    event = "reset" =>
        /\ DOMAIN session_state = {}
        /\ ans = ""
        /\ Phase(session_state) = "Idle"

C3_Witness ==
    /\ event = "reset"
    /\ phaseBefore = "FeedbackShown"
    /\ session_state = Empty
    /\ ~InputMissing

\* C6: a generate action with document and credential present leaves no
\* previous question or feedback, stores a fresh draw of page and chapter,
\* the drawn page's image and an archetype, and, when the model call
\* returned text, shows that text as the question with no feedback.
C6_GenerateOverwrites ==
    (event = "generate" /\ ~InputMissing) =>
        /\ ~FeedbackShown(session_state)
        /\ {"page", "chapter", "img", "q_type"} \subseteq DOMAIN session_state
        /\ \E r \in get_random_chapter_page(pdf) :
              /\ session_state["page"] = r.page
              /\ session_state["chapter"] = r.title
        /\ session_state["img"] \in get_page_image(pdf, session_state["page"])
        /\ session_state["q_type"] \in q_types
        /\ (result.status = "ok" /\ result.text # "") =>
              /\ session_state["current_question"] = result.text
              /\ Phase(session_state) = "QuestionShown"

C8_HandleReleased ==
    /\ openHandles <= 1
    /\ (event = "reset" => openHandles = 0)

\* C9: a grading call is issued only with a question shown, and sends the
\* archetype, question text and image stored by the generate action whose
\* question is shown; a grading call that returns stores its response as
\* feedback and changes no other session field.
C9_GradeSendsStored ==
    /\ [](GradeCalled =>
            /\ phaseBefore \in {"QuestionShown", "FeedbackShown"}
            /\ genCall # NoCall
            /\ call[1].q_type = genCall[1].req.q_type
            /\ call[1].img = genCall[1].req.img
            /\ call[1].question = genCall[1].response
            /\ call[1].question # "")
    /\ [][(event' = "check" /\ result'.status = "ok")
            => session_state' = Set(session_state, "feedback", result'.text)]_vars

C9_Witness ==
    /\ GradeCalled
    /\ phaseBefore = "FeedbackShown"
    /\ result = [status |-> "ok", text |-> "text"]
    /\ call[1].ans = "answer"

\* C10: in every reachable state a shown question is the response to a
\* request built from the stored page, chapter, image and archetype, and a
\* shown feedback is the response to a grading request for the stored
\* question and image, also after a model call or a rendering failed.
C10_NoStalePairing ==
    /\ QuestionShown(session_state) =>
          /\ genCall # NoCall
          /\ genCall[1].response = session_state["current_question"]
          /\ genCall[1].req.page = session_state["page"]
          /\ genCall[1].req.chapter = session_state["chapter"]
          /\ genCall[1].req.img = session_state["img"]
          /\ genCall[1].req.q_type = session_state["q_type"]
    /\ FeedbackShown(session_state) =>
          /\ gradeCall # NoCall
          /\ gradeCall[1].response = session_state["feedback"]
          /\ gradeCall[1].req.question = session_state["current_question"]
          /\ gradeCall[1].req.page = session_state["page"]
          /\ gradeCall[1].req.img = session_state["img"]
          /\ gradeCall[1].req.q_type = session_state["q_type"]
          /\ QuestionShown(session_state)

C10_Witness ==
    /\ event = "generate"
    /\ result.status = "error"
    /\ phaseBefore = "FeedbackShown"
    /\ Has(session_state, "page")

====
